---- MODULE Spec2Model ----
(***************************************************************************)
(* A model of the brainfuck front end (src/parser.rs), the jump resolver   *)
(* and the two interpreters (src/bf.rs, src/bytecode_bf.rs).               *)
(*                                                                         *)
(* Vectors are TLA+ sequences; the code's 0-based index i is At(v, i).     *)
(***************************************************************************)
EXTENDS Integers, Sequences, FiniteSets, TLC

VARIABLES
    src_code,       \* the source text handed to Parser::parse / parse_to_bytecode
    program,        \* Program.instructions (Vec<char>) once Parser::parse has run
    bytecode,       \* ByteCodeProgram.instructions
    unopt,          \* ByteCodeProgram.instructions as they were before opt_pass_1
    jumptable,      \* result of Program::compute_jumptable
    bc_jumptable,   \* result of ByteCodeProgram::compute_jumptable
    called,         \* the operations applied so far
    overflow_checks,\* build profile: TRUE = debug (integer overflow panics)
    input,          \* the bytes standard input holds when an eval starts
    stdin,          \* bytes of standard input not yet consumed
    engine,         \* the engine whose eval is running, or "none"
    jt,             \* the running eval's local jumptable
    memory,         \* the running eval's tape
    data_counter,   \* the running eval's cursor
    pc,             \* the running eval's program counter
    out,            \* bytes the running eval has written to standard output
    status,         \* "idle", "running", "done" (returned) or "panic"
    results,        \* outcome of every eval that has finished, by engine
    arg_from,       \* the jump_from handed to compute_relative_32bit_offset
    arg_to,         \* the jump_to handed to compute_relative_32bit_offset
    offset,         \* what the call of compute_relative_32bit_offset came to
    emitter,        \* CodeEmitter._code of SimpleJit::parse_and_run
    open_bracket_stack, \* offsets of the jz instructions still to be patched
    program_memory  \* the page behind JitProgram._program_memory

vars == <<src_code, program, bytecode, unopt, jumptable, bc_jumptable, called,
          overflow_checks, input, stdin, engine, jt, memory, data_counter, pc, out,
          status, results, arg_from, arg_to, offset, emitter, open_bracket_stack,
          program_memory>>

evalVars == <<overflow_checks, input, stdin, engine, jt, memory, data_counter, pc, out,
              status, results, arg_from, arg_to, offset, emitter, open_bracket_stack,
              program_memory>>

-----------------------------------------------------------------------------
(* Bounds of the model.                                                    *)

MaxSrcLen == 4      \* longest source text enumerated for the front end
MaxOps == 4         \* longest opcode vector enumerated for the optimizer
MaxProgLen == 3     \* longest program enumerated for the interpreters
MaxOut == 3         \* guest output bytes after which Write is no longer followed
MEMORY_SIZE == 4    \* cells of the tape (src/lib.rs sets 30000; scaled down)
MaxDelta == 3       \* largest operand of the DataIncr / DataDecr pair run on one cell

-----------------------------------------------------------------------------
(* Vectors.                                                                *)

At(v, i) == v[i + 1]

\* &v[index..]
SliceFrom(v, index) == SubSeq(v, index + 1, Len(v))

\* vec![x; n]
Repeat(x, n) == [i \in 1..n |-> x]

\* v[i] = x for a 0-based i
SetAt(v, i, x) == [v EXCEPT ![i + 1] = x]

SeqsUpTo(S, n) == UNION {[1..k -> S] : k \in 0..n}

Min(a, b) == IF a <= b THEN a ELSE b

-----------------------------------------------------------------------------
(* src/bytecode_bf.rs: the opcodes.                                        *)

Incr(x) == [kind |-> "Incr", x |-> x]
Decr(x) == [kind |-> "Decr", x |-> x]

Nop == [op |-> "Nop", chng |-> "-", n |-> 0]
DataPointerIncr(x) == [op |-> "DataPointerIncr", chng |-> "-", n |-> x]
DataPointerDecr(x) == [op |-> "DataPointerDecr", chng |-> "-", n |-> x]
DataIncr(x) == [op |-> "DataIncr", chng |-> "-", n |-> x]
DataDecr(x) == [op |-> "DataDecr", chng |-> "-", n |-> x]
Write == [op |-> "Write", chng |-> "-", n |-> 0]
Read == [op |-> "Read", chng |-> "-", n |-> 0]
JZ == [op |-> "JZ", chng |-> "-", n |-> 0]
JNZ == [op |-> "JNZ", chng |-> "-", n |-> 0]
SETZERO == [op |-> "SETZERO", chng |-> "-", n |-> 0]
MoveInStepUntilZero(c) == [op |-> "MoveInStepUntilZero", chng |-> c.kind, n |-> c.x]

-----------------------------------------------------------------------------
(* src/parser.rs                                                           *)

\* the eight characters of the filter in Parser::parse
RecognizedChars == {">", "<", "+", "-", ".", ",", "[", "]"}

\* Parser::parse: keep the bytes that are one of the eight characters
ParseDropComma(src) == SelectSeq(src, LAMBDA x : x \in RecognizedChars \ {","})

Parse(src) == SelectSeq(src, LAMBDA x : x \in RecognizedChars)

\* count_contigous with the found index off by one
CountContigousOffByOne(vec, c) ==
    IF \E i \in 0..(Len(vec) - 1) : At(vec, i) # c
    THEN 1 + (CHOOSE i \in 0..(Len(vec) - 1) :
                /\ At(vec, i) # c
                /\ \A j \in 0..(i - 1) : At(vec, j) = c)
    ELSE Len(vec)

\* Parser::count_contigous: index of the first element that differs from c
CountContigous(vec, c) ==
    IF \E i \in 0..(Len(vec) - 1) : At(vec, i) # c
    THEN CHOOSE i \in 0..(Len(vec) - 1) :
            /\ At(vec, i) # c
            /\ \A j \in 0..(i - 1) : At(vec, j) = c
    ELSE Len(vec)

\* the loop body without `index += occ - 1`
LowerOneNoSkip(instructions, index) ==
    LET c == At(instructions, index)
        occ == CountContigous(SliceFrom(instructions, index), c)
    IN  CASE c = "[" -> [instr |-> JZ, index |-> index + 1]
          [] c = "]" -> [instr |-> JNZ, index |-> index + 1]
          [] c = "." -> [instr |-> Write, index |-> index + 1]
          [] c = "," -> [instr |-> Read, index |-> index + 1]
          [] c = "+" -> [instr |-> DataIncr(occ), index |-> index + 1]
          [] c = "-" -> [instr |-> DataDecr(occ), index |-> index + 1]
          [] c = ">" -> [instr |-> DataPointerIncr(occ), index |-> index + 1]
          [] c = "<" -> [instr |-> DataPointerDecr(occ), index |-> index + 1]
          [] OTHER -> [instr |-> Nop, index |-> index + 1]

\* one iteration of the while loop of Parser::parse_to_bytecode: the opcode
\* pushed and the value of index after `index += 1`
LowerOne(instructions, index) ==
    LET c == At(instructions, index)
        occ == CountContigous(SliceFrom(instructions, index), c)
    IN  CASE c = "[" -> [instr |-> JZ, index |-> index + 1]
          [] c = "]" -> [instr |-> JNZ, index |-> index + 1]
          [] c = "." -> [instr |-> Write, index |-> index + 1]
          [] c = "," -> [instr |-> Read, index |-> index + 1]
          [] c = "+" -> [instr |-> DataIncr(occ), index |-> index + (occ - 1) + 1]
          [] c = "-" -> [instr |-> DataDecr(occ), index |-> index + (occ - 1) + 1]
          [] c = ">" -> [instr |-> DataPointerIncr(occ), index |-> index + (occ - 1) + 1]
          [] c = "<" -> [instr |-> DataPointerDecr(occ), index |-> index + (occ - 1) + 1]
          [] OTHER -> [instr |-> Nop, index |-> index + 1]

RECURSIVE LowerLoop(_, _, _)
LowerLoop(instructions, index, bytecode_instrs) ==
    IF index < Len(instructions)
    THEN LET r == LowerOne(instructions, index)
         IN  LowerLoop(instructions, r.index, Append(bytecode_instrs, r.instr))
    ELSE bytecode_instrs

\* Parser::parse_to_bytecode
ParseToBytecode(src) == LowerLoop(Parse(src), 0, <<>>)

-----------------------------------------------------------------------------
(* src/bf.rs: Program::compute_jumptable                                   *)

\* what compute_jumptable yields: the table it returns, or the pc it panics at
Returned(table) == [panic |-> FALSE, table |-> table, pc |-> 0]
Panicked(at) == [panic |-> TRUE, table |-> <<>>, pc |-> at]

\* the inner loop without `nesting += 1`: stops at the first closer
RECURSIVE Program_seek_flat(_, _, _)
Program_seek_flat(instructions, nesting, seek) ==
    IF nesting > 0 /\ (seek + 1) < Len(instructions)
    THEN LET s == seek + 1
         IN  IF At(instructions, s) = "]"
             THEN Program_seek_flat(instructions, nesting - 1, s)
             ELSE Program_seek_flat(instructions, nesting, s)
    ELSE [nesting |-> nesting, seek |-> seek]

\* the inner `while nesting > 0 && (seek + 1) < prog_size` loop
RECURSIVE Program_seek(_, _, _)
Program_seek(instructions, nesting, seek) ==
    IF nesting > 0 /\ (seek + 1) < Len(instructions)
    THEN LET s == seek + 1
         IN  IF At(instructions, s) = "]"
             THEN Program_seek(instructions, nesting - 1, s)
             ELSE IF At(instructions, s) = "["
                  THEN Program_seek(instructions, nesting + 1, s)
                  ELSE Program_seek(instructions, nesting, s)
    ELSE [nesting |-> nesting, seek |-> seek]

\* the outer `while pc < prog_size` loop
RECURSIVE Program_jumptable_loop(_, _, _)
Program_jumptable_loop(instructions, at, table) ==
    IF at < Len(instructions)
    THEN IF At(instructions, at) = "["
         THEN LET r == Program_seek(instructions, 1, at)
              IN  IF r.nesting = 0
                  THEN Program_jumptable_loop(instructions, at + 1,
                           SetAt(SetAt(table, at, r.seek), r.seek, at))
                  ELSE Panicked(at)
         ELSE Program_jumptable_loop(instructions, at + 1, table)
    ELSE Returned(table)

\* a resolver that hands out an all-zero table without looking for brackets
Program_compute_jumptable_unchecked(instructions) ==
    Returned(Repeat(0, Len(instructions)))

Program_compute_jumptable(instructions) ==
    Program_jumptable_loop(instructions, 0, Repeat(0, Len(instructions)))

-----------------------------------------------------------------------------
(* src/bytecode_bf.rs: ByteCodeProgram::compute_jumptable                  *)

RECURSIVE ByteCodeProgram_seek(_, _, _)
ByteCodeProgram_seek(instructions, nesting, seek) ==
    IF nesting > 0 /\ (seek + 1) < Len(instructions)
    THEN LET s == seek + 1
         IN  IF At(instructions, s) = JNZ
             THEN ByteCodeProgram_seek(instructions, nesting - 1, s)
             ELSE IF At(instructions, s) = JZ
                  THEN ByteCodeProgram_seek(instructions, nesting + 1, s)
                  ELSE ByteCodeProgram_seek(instructions, nesting, s)
    ELSE [nesting |-> nesting, seek |-> seek]

RECURSIVE ByteCodeProgram_jumptable_loop(_, _, _)
ByteCodeProgram_jumptable_loop(instructions, at, table) ==
    IF at < Len(instructions)
    THEN IF At(instructions, at) = JZ
         THEN LET r == ByteCodeProgram_seek(instructions, 1, at)
              IN  IF r.nesting = 0
                  THEN ByteCodeProgram_jumptable_loop(instructions, at + 1,
                           SetAt(SetAt(table, at, r.seek), r.seek, at))
                  ELSE Panicked(at)
         ELSE ByteCodeProgram_jumptable_loop(instructions, at + 1, table)
    ELSE Returned(table)

ByteCodeProgram_compute_jumptable(instructions) ==
    ByteCodeProgram_jumptable_loop(instructions, 0, Repeat(0, Len(instructions)))

-----------------------------------------------------------------------------
(* src/bytecode_bf.rs: the peephole optimizer                              *)

\* Option<Change>
None == [kind |-> "None", x |-> 0]

\* is_set_zero that does not look at the third opcode
is_set_zero_two(instructions) ==
    IF Len(instructions) >= 3
    THEN /\ At(instructions, 0) = JZ
         /\ At(instructions, 1).op \in {"DataIncr", "DataDecr"}
    ELSE FALSE

\* ByteCodeProgram::is_set_zero
is_set_zero(instructions) ==
    IF Len(instructions) >= 3
    THEN /\ At(instructions, 0) = JZ
         /\ At(instructions, 1).op \in {"DataIncr", "DataDecr"}
         /\ At(instructions, 2) = JNZ
    ELSE FALSE

\* is_move_until_zero with the two directions exchanged
is_move_until_zero_swapped(instructions) ==
    IF Len(instructions) >= 3
    THEN IF /\ At(instructions, 0) = JZ
            /\ At(instructions, 1).op = "DataPointerIncr"
            /\ At(instructions, 2) = JNZ
         THEN Decr(At(instructions, 1).n)
         ELSE IF /\ At(instructions, 0) = JZ
                 /\ At(instructions, 1).op = "DataPointerDecr"
                 /\ At(instructions, 2) = JNZ
              THEN Incr(At(instructions, 1).n)
              ELSE None
    ELSE None

\* ByteCodeProgram::is_move_until_zero
is_move_until_zero(instructions) ==
    IF Len(instructions) >= 3
    THEN IF /\ At(instructions, 0) = JZ
            /\ At(instructions, 1).op = "DataPointerIncr"
            /\ At(instructions, 2) = JNZ
         THEN Incr(At(instructions, 1).n)
         ELSE IF /\ At(instructions, 0) = JZ
                 /\ At(instructions, 1).op = "DataPointerDecr"
                 /\ At(instructions, 2) = JNZ
              THEN Decr(At(instructions, 1).n)
              ELSE None
    ELSE None

\* one iteration of the while loop of opt_pass_1: the opcode pushed and the
\* value of index after `index += 1`
OptOne(instructions, index) ==
    IF At(instructions, index) = JZ
    THEN IF is_set_zero(SliceFrom(instructions, index))
         THEN [instr |-> SETZERO, index |-> index + 2 + 1]
         ELSE LET change == is_move_until_zero(SliceFrom(instructions, index))
              IN  IF change # None
                  THEN [instr |-> MoveInStepUntilZero(change), index |-> index + 2 + 1]
                  ELSE [instr |-> JZ, index |-> index + 1]
    ELSE [instr |-> At(instructions, index), index |-> index + 1]

RECURSIVE OptLoop(_, _, _)
OptLoop(instructions, index, new_instructions) ==
    IF index < Len(instructions)
    THEN LET r == OptOne(instructions, index)
         IN  OptLoop(instructions, r.index, Append(new_instructions, r.instr))
    ELSE new_instructions

\* ByteCodeProgram::opt_pass_1: the new value of self.instructions
opt_pass_1(instructions) == OptLoop(instructions, 0, <<>>)

-----------------------------------------------------------------------------
(* The front end: a source text is lexed, lowered, optimized, and the jump *)
(* tables of the token program and of the opcode program are resolved.     *)

\* bytes of a source text: the eight characters and one that is none of them
SrcBytes == RecognizedChars \cup {"a"}

\* the source text of test::bytecode_parser (src/parser.rs)
TestSrc == <<">", ">", "+", "+", "<", "<", ".", ",", "[", "]", "-", "-">>

SrcInputs == SeqsUpTo(SrcBytes, MaxSrcLen) \cup {TestSrc}

NotResolved == [panic |-> FALSE, table |-> <<>>, pc |-> 0]

\* compute_relative_32bit_offset has not been called
NotCalled == [state |-> "none", value |-> <<0, 0>>]

\* no page has been mapped
NoPage == [state |-> "none", prot |-> {}, bytes |-> <<>>, copies |-> 0, calls |-> 0]

\* SimpleJit::parse_and_run has not been entered
JitIdle ==
    /\ emitter = <<>>
    /\ open_bracket_stack = <<>>
    /\ program_memory = NoPage

OffsetIdle ==
    /\ arg_from = <<0, 0, 0, 0>>
    /\ arg_to = <<0, 0, 0, 0>>
    /\ offset = NotCalled

EvalIdle ==
    /\ overflow_checks = FALSE
    /\ input = <<>>
    /\ stdin = <<>>
    /\ engine = "none"
    /\ jt = <<>>
    /\ memory = <<>>
    /\ data_counter = 0
    /\ pc = 0
    /\ out = <<>>
    /\ status = "idle"
    /\ results = <<>>
    /\ OffsetIdle
    /\ JitIdle

Init ==
    /\ src_code \in SrcInputs
    /\ program = <<>>
    /\ bytecode = <<>>
    /\ unopt = <<>>
    /\ jumptable = NotResolved
    /\ bc_jumptable = NotResolved
    /\ called = {}
    /\ EvalIdle

\* Parser::parse(src_code)
DoParse ==
    /\ "parse" \notin called
    /\ program' = Parse(src_code)
    /\ called' = called \cup {"parse"}
    /\ UNCHANGED <<src_code, bytecode, unopt, jumptable, bc_jumptable>>
    /\ UNCHANGED evalVars

\* Parser::parse_to_bytecode(src_code)
DoParseToBytecode ==
    /\ "parse_to_bytecode" \notin called
    /\ bytecode' = ParseToBytecode(src_code)
    /\ unopt' = bytecode'
    /\ called' = called \cup {"parse_to_bytecode"}
    /\ UNCHANGED <<src_code, program, jumptable, bc_jumptable>>
    /\ UNCHANGED evalVars

\* ByteCodeProgram::opt_pass_1(&mut self)
DoOptPass1 ==
    /\ {"parse_to_bytecode", "ByteCodeProgram"} \cap called # {}
    /\ "opt_pass_1" \notin called
    /\ "ByteCodeProgram::compute_jumptable" \notin called
    /\ unopt' = bytecode
    /\ bytecode' = opt_pass_1(bytecode)
    /\ called' = called \cup {"opt_pass_1"}
    /\ UNCHANGED <<src_code, program, jumptable, bc_jumptable>>
    /\ UNCHANGED evalVars

\* Program::compute_jumptable(&self)
DoProgramJumptable ==
    /\ "parse" \in called
    /\ "Program::compute_jumptable" \notin called
    /\ jumptable' = Program_compute_jumptable(program)
    /\ called' = called \cup {"Program::compute_jumptable"}
    /\ UNCHANGED <<src_code, program, bytecode, unopt, bc_jumptable>>
    /\ UNCHANGED evalVars

\* ByteCodeProgram::compute_jumptable(&self)
DoByteCodeJumptable ==
    /\ {"parse_to_bytecode", "ByteCodeProgram"} \cap called # {}
    /\ "ByteCodeProgram::compute_jumptable" \notin called
    /\ bc_jumptable' = ByteCodeProgram_compute_jumptable(bytecode)
    /\ called' = called \cup {"ByteCodeProgram::compute_jumptable"}
    /\ UNCHANGED <<src_code, program, bytecode, unopt, jumptable>>
    /\ UNCHANGED evalVars

Next ==
    \/ DoParse
    \/ DoParseToBytecode
    \/ DoOptPass1
    \/ DoProgramJumptable
    \/ DoByteCodeJumptable

Spec == Init /\ [][Next]_vars

-----------------------------------------------------------------------------
(* Properties of the front end.                                            *)

EightChars == {">", "<", "+", "-", ".", ",", "[", "]"}

\* positions of src whose byte is one of the eight characters
Kept(src) == {i \in 1..Len(src) : src[i] \in EightChars}

\* C1: Parser::parse returns exactly the subsequence of the input made of the
\* eight characters > < + - . , [ ] in their original order: the k-th token is
\* the k-th recognized byte, and every other byte is dropped.
C1_ParseIsFilter ==
    "parse" \in called =>
        /\ Len(program) = Cardinality(Kept(src_code))
        /\ \A i \in Kept(src_code) :
              program[Cardinality({j \in Kept(src_code) : j <= i})] = src_code[i]

\* a text with dropped bytes before, between and after two kept ones was lexed
C1_Witness ==
    /\ "parse" \in called
    /\ src_code = <<"a", ",", "a", "]">>
    /\ program = <<",", "]">>

CountedOps == {"DataPointerIncr", "DataPointerDecr", "DataIncr", "DataDecr"}

\* the token an opcode of the lowerer stands for
TokenOf(instr) ==
    CASE instr.op = "DataPointerIncr" -> ">"
      [] instr.op = "DataPointerDecr" -> "<"
      [] instr.op = "DataIncr" -> "+"
      [] instr.op = "DataDecr" -> "-"
      [] instr.op = "Write" -> "."
      [] instr.op = "Read" -> ","
      [] instr.op = "JZ" -> "["
      [] instr.op = "JNZ" -> "]"
      [] OTHER -> "?"

\* the tokens an opcode vector stands for: n copies for a counted opcode
RECURSIVE Expand(_)
Expand(instrs) ==
    IF instrs = <<>> THEN <<>>
    ELSE LET h == Head(instrs)
         IN  (IF h.op \in CountedOps THEN Repeat(TokenOf(h), h.n) ELSE <<TokenOf(h)>>)
             \o Expand(Tail(instrs))

\* C2: parse_to_bytecode emits, in source order, one counted opcode per maximal
\* run of the same token among > < + - with n the run length (n >= 1, no two
\* adjacent opcodes of the same counted kind) and one opcode per [ ] . , token;
\* the empty input yields the empty program.
C2_LowerIsRunLength ==
    "parse_to_bytecode" \in called =>
        /\ Expand(unopt) = SelectSeq(src_code, LAMBDA x : x \in EightChars)
        /\ \A i \in 1..Len(unopt) : unopt[i].op \in CountedOps => unopt[i].n >= 1
        /\ \A i \in 1..(Len(unopt) - 1) :
              unopt[i].op \in CountedOps => unopt[i + 1].op # unopt[i].op
        /\ (src_code = <<>> => unopt = <<>>)

\* the vector test::bytecode_parser expects was produced from its source text
C2_Witness ==
    /\ "parse_to_bytecode" \in called
    /\ src_code = TestSrc
    /\ unopt = <<DataPointerIncr(2), DataIncr(2), DataPointerDecr(2), Write, Read,
                 JZ, JNZ, DataDecr(2)>>

\* two adjacent tokens are the same arithmetic/pointer token
HasAdjacentRun(tokens) ==
    \E i \in 1..(Len(tokens) - 1) :
        tokens[i] \in {">", "<", "+", "-"} /\ tokens[i + 1] = tokens[i]

\* C3: the lowered opcode vector is at most as long as the token vector, and
\* equally long exactly when no two adjacent tokens are the same > < + - token.
C3_LowerContracts ==
    "parse_to_bytecode" \in called =>
        LET tokens == SelectSeq(src_code, LAMBDA x : x \in EightChars)
        IN  /\ Len(unopt) <= Len(tokens)
            /\ (Len(unopt) = Len(tokens)) <=> ~HasAdjacentRun(tokens)

\* a text with a run was lowered to a strictly shorter vector
C3_Witness ==
    /\ "parse_to_bytecode" \in called
    /\ src_code = <<"+", "+", "-", "-">>
    /\ Len(unopt) = 2

\* nesting depth after the first k elements
Depth(prog, open, close, k) ==
    Cardinality({i \in 1..k : prog[i] = open}) - Cardinality({i \in 1..k : prog[i] = close})

Balanced(prog, open, close) ==
    /\ \A k \in 1..Len(prog) : Depth(prog, open, close, k) >= 0
    /\ Depth(prog, open, close, Len(prog)) = 0

\* the table pairs every bracket of prog with one of the opposite kind
PairsBrackets(prog, open, close, r) ==
    /\ ~r.panic
    /\ Len(r.table) = Len(prog)
    /\ \A i \in 0..(Len(prog) - 1) :
          At(prog, i) \in {open, close} =>
              /\ At(r.table, i) \in 0..(Len(prog) - 1)
              /\ At(r.table, At(r.table, i)) = i
              /\ At(prog, At(r.table, i)) \in {open, close} \ {At(prog, i)}
              /\ At(prog, At(r.table, At(r.table, i))) = At(prog, i)

\* C4: on a bracket-balanced program (tokens, Program::compute_jumptable; opcodes,
\* ByteCodeProgram::compute_jumptable) the table has the program's length and for
\* every bracket index i: table[table[i]] = i, prog[table[i]] is the opposite
\* bracket and prog[table[table[i]]] = prog[i].
C4_JumptableInvolution ==
    /\ ("Program::compute_jumptable" \in called /\ Balanced(program, "[", "]"))
          => PairsBrackets(program, "[", "]", jumptable)
    /\ ("ByteCodeProgram::compute_jumptable" \in called /\ Balanced(bytecode, JZ, JNZ))
          => PairsBrackets(bytecode, JZ, JNZ, bc_jumptable)

\* both resolvers ran on a program with nested brackets
C4_Witness ==
    /\ {"Program::compute_jumptable", "ByteCodeProgram::compute_jumptable"} \subseteq called
    /\ program = <<"[", "[", "]", "]">>
    /\ bytecode = <<JZ, JZ, JNZ, JNZ>>
    /\ jumptable.table = <<3, 2, 1, 0>>
    /\ bc_jumptable.table = <<3, 2, 1, 0>>

\* C5: the jump resolver of both interpreters fails on every program with an
\* opener that has no matching closer or a closer that has no matching opener.
C5_UnbalancedFails ==
    /\ ("Program::compute_jumptable" \in called /\ ~Balanced(program, "[", "]"))
          => jumptable.panic
    /\ ("ByteCodeProgram::compute_jumptable" \in called /\ ~Balanced(bytecode, JZ, JNZ))
          => bc_jumptable.panic

-----------------------------------------------------------------------------
(* The optimizer on opcode vectors built directly                          *)
(* (ByteCodeProgram { instructions }, whose field is public).              *)

OperandValues == {1, 2}

OpcodeInputs ==
    {DataPointerIncr(x) : x \in OperandValues} \cup {DataPointerDecr(x) : x \in OperandValues}
    \cup {DataIncr(x) : x \in OperandValues} \cup {DataDecr(x) : x \in OperandValues}
    \cup {Write, Read, JZ, JNZ}

\* vectors with two windows, a window inside a loop and a window after a window
LongOpcodeInputs ==
    { <<JZ, DataIncr(1), JNZ, JZ, DataPointerDecr(2), JNZ, JZ>>,
      <<JZ, JZ, DataDecr(2), JNZ, JNZ, DataPointerIncr(1)>>,
      <<JZ, DataPointerIncr(1), JNZ, JNZ, JZ, Write, JNZ>> }

InitOpt ==
    /\ src_code = <<>>
    /\ program = <<>>
    /\ bytecode \in SeqsUpTo(OpcodeInputs, MaxOps) \cup LongOpcodeInputs
    /\ unopt = bytecode
    /\ jumptable = NotResolved
    /\ bc_jumptable = NotResolved
    /\ called = {"ByteCodeProgram"}
    /\ EvalIdle

NextOpt ==
    \/ DoOptPass1
    \/ DoByteCodeJumptable

SpecOpt == InitOpt /\ [][NextOpt]_vars

\* a rewritten window starts at the 0-based index i
Window(instrs, i) ==
    /\ i + 2 < Len(instrs)
    /\ At(instrs, i).op = "JZ"
    /\ At(instrs, i + 1).op \in CountedOps
    /\ At(instrs, i + 2).op = "JNZ"

Windows(instrs) == {i \in 0..(Len(instrs) - 1) : Window(instrs, i)}

\* the opcode that replaces the window at i
Replacement(instrs, i) ==
    LET mid == At(instrs, i + 1)
    IN  CASE mid.op \in {"DataIncr", "DataDecr"} -> SETZERO
          [] mid.op = "DataPointerIncr" ->
                [op |-> "MoveInStepUntilZero", chng |-> "Incr", n |-> mid.n]
          [] mid.op = "DataPointerDecr" ->
                [op |-> "MoveInStepUntilZero", chng |-> "Decr", n |-> mid.n]

\* C6: opt_pass_1 replaces every window JZ, DataIncr|DataDecr, JNZ by SETZERO,
\* every window JZ, DataPointerIncr(k), JNZ by MoveInStepUntilZero(Incr(k)) and
\* every window JZ, DataPointerDecr(k), JNZ by MoveInStepUntilZero(Decr(k)), copies
\* every other opcode in order, and so shortens the vector by two per window.
C6_OptRewritesWindows ==
    "opt_pass_1" \in called =>
        LET W == Windows(unopt)
        IN  /\ Len(bytecode) = Len(unopt) - 2 * Cardinality(W)
            /\ \A i \in 0..(Len(unopt) - 1) :
                  ((i - 1) \notin W /\ (i - 2) \notin W) =>
                      At(bytecode, i - 2 * Cardinality({m \in W : m < i})) =
                          IF i \in W THEN Replacement(unopt, i) ELSE At(unopt, i)

\* a vector with a SETZERO window and a MoveInStepUntilZero window was rewritten
C6_Witness ==
    /\ "opt_pass_1" \in called
    /\ unopt = <<JZ, DataIncr(1), JNZ, JZ, DataPointerDecr(2), JNZ, JZ>>
    /\ bytecode = <<SETZERO, MoveInStepUntilZero(Decr(2)), JZ>>

\* C7: opt_pass_1 preserves bracket balance (the input is balanced if and only
\* if the output is) and the output is strictly shorter whenever a window matches.
C7_OptKeepsBalance ==
    "opt_pass_1" \in called =>
        /\ Balanced(unopt, JZ, JNZ) <=> Balanced(bytecode, JZ, JNZ)
        /\ Windows(unopt) # {} => Len(bytecode) < Len(unopt)

\* a balanced vector with a window nested in a loop was rewritten
C7_Witness ==
    /\ "opt_pass_1" \in called
    /\ unopt = <<JZ, JZ, DataDecr(2), JNZ, JNZ, DataPointerIncr(1)>>
    /\ bytecode = <<JZ, SETZERO, JNZ, DataPointerIncr(1)>>
    /\ Balanced(bytecode, JZ, JNZ)

-----------------------------------------------------------------------------
(* The interpreters: Program::eval (src/bf.rs) and ByteCodeProgram::eval   *)
(* (src/bytecode_bf.rs), one action per match arm.  The engines are        *)
(*   "interpret"       Parser::parse, Program::eval                        *)
(*   "bytecode_unopt"  Parser::parse_to_bytecode, ByteCodeProgram::eval    *)
(*   "bytecode"        parse_to_bytecode, opt_pass_1, ByteCodeProgram::eval*)
(* Each runs as its own process on the same standard input.                *)

Engines == {"interpret", "bytecode_unopt", "bytecode"}

\* vec![0 as u8; MEMORY_SIZE]
ZeroTape == Repeat(0, MEMORY_SIZE)

\* the bounds check of memory[data_counter]
InBounds(dc) == dc < MEMORY_SIZE

\* print!("{}", v as char): the UTF-8 encoding of the code point v
Utf8(v) == IF v < 128 THEN <<v>> ELSE <<192 + (v \div 64), 128 + (v % 64)>>

\* stdin().read_line(&mut inp) on ASCII input: the bytes up to and including
\* the first newline, or all that is left
ReadLine(bytes) ==
    LET nl == {i \in 1..Len(bytes) : bytes[i] = 10}
    IN  IF nl = {}
        THEN [line |-> bytes, rest |-> <<>>]
        ELSE LET k == CHOOSE i \in nl : \A j \in nl : i <= j
             IN  [line |-> SubSeq(bytes, 1, k), rest |-> SubSeq(bytes, k + 1, Len(bytes))]

\* memory[data_counter] += 1 / -= 1 on a u8, when it does not panic
TreeIncr(v) == (v + 1) % 256
TreeDecr(v) == (v - 1) % 256

\* (memory[data_counter] as usize + x) as u8
DataIncrCell(v, x) == (v + x) % 256

\* (memory[data_counter] as usize - x.min(memory[data_counter] as usize)) as u8
DataDecrCell(v, x) == (v - Min(x, v)) % 256

\* a pointer decrement that gives up instead of clamping: the cursor stays
\* where it is when x exceeds it
PointerDecrSkip(dc, x) == IF x > dc THEN dc ELSE dc - x

\* data_counter -= x.min(data_counter)
PointerDecr(dc, x) == dc - Min(x, dc)

\* the while loop of the MoveInStepUntilZero arm.  `*cur_dc - x` below zero
\* panics with overflow checks; without them it wraps to an index far past the
\* tape, and the next memory[*cur_dc] panics.
RECURSIVE MoveUntilZero(_, _, _, _)
MoveUntilZero(mem, cur_dc, kind, x) ==
    IF ~InBounds(cur_dc)
    THEN [panic |-> TRUE, dc |-> cur_dc]
    ELSE IF At(mem, cur_dc) # 0
         THEN IF kind = "Incr"
              THEN MoveUntilZero(mem, cur_dc + x, kind, x)
              ELSE IF cur_dc - x < 0
                   THEN [panic |-> TRUE, dc |-> cur_dc]
                   ELSE MoveUntilZero(mem, cur_dc - x, kind, x)
         ELSE [panic |-> FALSE, dc |-> cur_dc]

\* self.instructions of the running ByteCodeProgram
Code == IF engine = "bytecode_unopt" THEN unopt ELSE bytecode

\* what an eval that has ended leaves behind
Live == [status |-> status, out |-> out, memory |-> memory,
         data_counter |-> data_counter, stdin |-> stdin]

fixedVars == <<src_code, program, bytecode, unopt, jumptable, bc_jumptable, called,
               overflow_checks, input, engine, jt, results, arg_from, arg_to, offset,
               emitter, open_bracket_stack, program_memory>>

\* Program::eval / ByteCodeProgram::eval up to the while loop: the tape, the
\* cursor, the program counter and the jump table
Begin(e) ==
    /\ status \in {"idle", "done", "panic"}
    /\ e # engine
    /\ e \notin DOMAIN results
    /\ engine' = e
    /\ results' = IF engine = "none" THEN results ELSE results @@ (engine :> Live)
    /\ memory' = ZeroTape
    /\ data_counter' = 0
    /\ pc' = 0
    /\ out' = <<>>
    /\ stdin' = input
    /\ LET r == IF e = "interpret"
                THEN Program_compute_jumptable(program)
                ELSE ByteCodeProgram_compute_jumptable(
                         IF e = "bytecode_unopt" THEN unopt ELSE bytecode)
       IN  /\ jt' = r.table
           /\ status' = IF r.panic THEN "panic" ELSE "running"
    /\ UNCHANGED <<src_code, program, bytecode, unopt, jumptable, bc_jumptable,
                   called, overflow_checks, input, arg_from, arg_to, offset,
                   emitter, open_bracket_stack, program_memory>>

\* the arm of Program::eval for the character c is about to run
TreeAt(c) ==
    /\ engine = "interpret"
    /\ status = "running"
    /\ pc < Len(program)
    /\ At(program, pc) = c

\* the arm of ByteCodeProgram::eval for the opcode kind op is about to run
ByteCodeAt(op) ==
    /\ engine \in {"bytecode_unopt", "bytecode"}
    /\ status = "running"
    /\ pc < Len(Code)
    /\ At(Code, pc).op = op

\* a panic ends the process where it stands
Panic ==
    /\ status' = "panic"
    /\ UNCHANGED <<memory, data_counter, pc, out, stdin>>

Tree_Right ==
    /\ TreeAt(">")
    /\ data_counter' = data_counter + 1
    /\ pc' = pc + 1
    /\ UNCHANGED <<memory, out, stdin, status>>
    /\ UNCHANGED fixedVars

Tree_Left ==
    /\ TreeAt("<")
    /\ data_counter' = data_counter - Min(1, data_counter)
    /\ pc' = pc + 1
    /\ UNCHANGED <<memory, out, stdin, status>>
    /\ UNCHANGED fixedVars

Tree_Plus ==
    /\ TreeAt("+")
    /\ IF ~InBounds(data_counter) \/ (overflow_checks /\ At(memory, data_counter) = 255)
       THEN Panic
       ELSE /\ memory' = SetAt(memory, data_counter, TreeIncr(At(memory, data_counter)))
            /\ pc' = pc + 1
            /\ UNCHANGED <<data_counter, out, stdin, status>>
    /\ UNCHANGED fixedVars

Tree_Minus ==
    /\ TreeAt("-")
    /\ IF ~InBounds(data_counter) \/ (overflow_checks /\ At(memory, data_counter) = 0)
       THEN Panic
       ELSE /\ memory' = SetAt(memory, data_counter, TreeDecr(At(memory, data_counter)))
            /\ pc' = pc + 1
            /\ UNCHANGED <<data_counter, out, stdin, status>>
    /\ UNCHANGED fixedVars

Tree_Write ==
    /\ TreeAt(".")
    /\ Len(out) < MaxOut
    /\ IF ~InBounds(data_counter)
       THEN Panic
       ELSE /\ out' = out \o Utf8(At(memory, data_counter))
            /\ pc' = pc + 1
            /\ UNCHANGED <<memory, data_counter, stdin, status>>
    /\ UNCHANGED fixedVars

\* a ',' arm that stores 0 at end of input and goes on
Tree_ReadEofZero ==
    /\ TreeAt(",")
    /\ LET r == ReadLine(stdin)
       IN  /\ stdin' = r.rest
           /\ IF ~InBounds(data_counter)
              THEN /\ status' = "panic"
                   /\ UNCHANGED <<memory, data_counter, pc, out>>
              ELSE /\ memory' = SetAt(memory, data_counter,
                                      IF r.line = <<>> THEN 0 ELSE r.line[1])
                   /\ pc' = pc + 1
                   /\ UNCHANGED <<data_counter, out, status>>
    /\ UNCHANGED fixedVars

Tree_Read ==
    /\ TreeAt(",")
    /\ LET r == ReadLine(stdin)
       IN  /\ stdin' = r.rest
           /\ IF r.line = <<>> \/ ~InBounds(data_counter)
              THEN /\ status' = "panic"
                   /\ UNCHANGED <<memory, data_counter, pc, out>>
              ELSE /\ memory' = SetAt(memory, data_counter, r.line[1])
                   /\ pc' = pc + 1
                   /\ UNCHANGED <<data_counter, out, status>>
    /\ UNCHANGED fixedVars

Tree_JumpIfZero ==
    /\ TreeAt("[")
    /\ IF ~InBounds(data_counter)
       THEN Panic
       ELSE /\ pc' = (IF At(memory, data_counter) = 0 THEN At(jt, pc) ELSE pc) + 1
            /\ UNCHANGED <<memory, data_counter, out, stdin, status>>
    /\ UNCHANGED fixedVars

Tree_JumpIfNotZero ==
    /\ TreeAt("]")
    /\ IF ~InBounds(data_counter)
       THEN Panic
       ELSE /\ pc' = (IF At(memory, data_counter) # 0 THEN At(jt, pc) ELSE pc) + 1
            /\ UNCHANGED <<memory, data_counter, out, stdin, status>>
    /\ UNCHANGED fixedVars

\* the while loop of Program::eval is left: println!("")
Tree_Return ==
    /\ engine = "interpret"
    /\ status = "running"
    /\ ~(pc < Len(program))
    /\ out' = Append(out, 10)
    /\ status' = "done"
    /\ UNCHANGED <<memory, data_counter, pc, stdin>>
    /\ UNCHANGED fixedVars

ByteCode_DataPointerIncr ==
    /\ ByteCodeAt("DataPointerIncr")
    /\ data_counter' = data_counter + At(Code, pc).n
    /\ pc' = pc + 1
    /\ UNCHANGED <<memory, out, stdin, status>>
    /\ UNCHANGED fixedVars

ByteCode_DataPointerDecr ==
    /\ ByteCodeAt("DataPointerDecr")
    /\ data_counter' = PointerDecr(data_counter, At(Code, pc).n)
    /\ pc' = pc + 1
    /\ UNCHANGED <<memory, out, stdin, status>>
    /\ UNCHANGED fixedVars

ByteCode_DataIncr ==
    /\ ByteCodeAt("DataIncr")
    /\ IF ~InBounds(data_counter)
       THEN Panic
       ELSE /\ memory' = SetAt(memory, data_counter,
                               DataIncrCell(At(memory, data_counter), At(Code, pc).n))
            /\ pc' = pc + 1
            /\ UNCHANGED <<data_counter, out, stdin, status>>
    /\ UNCHANGED fixedVars

ByteCode_DataDecr ==
    /\ ByteCodeAt("DataDecr")
    /\ IF ~InBounds(data_counter)
       THEN Panic
       ELSE /\ memory' = SetAt(memory, data_counter,
                               DataDecrCell(At(memory, data_counter), At(Code, pc).n))
            /\ pc' = pc + 1
            /\ UNCHANGED <<data_counter, out, stdin, status>>
    /\ UNCHANGED fixedVars

ByteCode_Write ==
    /\ ByteCodeAt("Write")
    /\ Len(out) < MaxOut
    /\ IF ~InBounds(data_counter)
       THEN Panic
       ELSE /\ out' = out \o Utf8(At(memory, data_counter))
            /\ pc' = pc + 1
            /\ UNCHANGED <<memory, data_counter, stdin, status>>
    /\ UNCHANGED fixedVars

ByteCode_Read ==
    /\ ByteCodeAt("Read")
    /\ LET r == ReadLine(stdin)
       IN  /\ stdin' = r.rest
           /\ IF r.line = <<>> \/ ~InBounds(data_counter)
              THEN /\ status' = "panic"
                   /\ UNCHANGED <<memory, data_counter, pc, out>>
              ELSE /\ memory' = SetAt(memory, data_counter, r.line[1])
                   /\ pc' = pc + 1
                   /\ UNCHANGED <<data_counter, out, status>>
    /\ UNCHANGED fixedVars

ByteCode_JZ ==
    /\ ByteCodeAt("JZ")
    /\ IF ~InBounds(data_counter)
       THEN Panic
       ELSE /\ pc' = (IF At(memory, data_counter) = 0 THEN At(jt, pc) ELSE pc) + 1
            /\ UNCHANGED <<memory, data_counter, out, stdin, status>>
    /\ UNCHANGED fixedVars

\* a JNZ arm that never jumps back
ByteCode_JNZ_FallThrough ==
    /\ ByteCodeAt("JNZ")
    /\ IF ~InBounds(data_counter)
       THEN Panic
       ELSE /\ pc' = pc + 1
            /\ UNCHANGED <<memory, data_counter, out, stdin, status>>
    /\ UNCHANGED fixedVars

ByteCode_JNZ ==
    /\ ByteCodeAt("JNZ")
    /\ IF ~InBounds(data_counter)
       THEN Panic
       ELSE /\ pc' = (IF At(memory, data_counter) # 0 THEN At(jt, pc) ELSE pc) + 1
            /\ UNCHANGED <<memory, data_counter, out, stdin, status>>
    /\ UNCHANGED fixedVars

ByteCode_SETZERO ==
    /\ ByteCodeAt("SETZERO")
    /\ IF ~InBounds(data_counter)
       THEN Panic
       ELSE /\ memory' = SetAt(memory, data_counter, 0)
            /\ pc' = pc + 1
            /\ UNCHANGED <<data_counter, out, stdin, status>>
    /\ UNCHANGED fixedVars

ByteCode_MoveInStepUntilZero ==
    /\ ByteCodeAt("MoveInStepUntilZero")
    /\ LET r == MoveUntilZero(memory, data_counter, At(Code, pc).chng, At(Code, pc).n)
       IN  IF r.panic
           THEN Panic
           ELSE /\ data_counter' = r.dc
                /\ pc' = pc + 1
                /\ UNCHANGED <<memory, out, stdin, status>>
    /\ UNCHANGED fixedVars

\* the while loop of ByteCodeProgram::eval is left: println!("")
ByteCode_Return ==
    /\ engine \in {"bytecode_unopt", "bytecode"}
    /\ status = "running"
    /\ ~(pc < Len(Code))
    /\ out' = Append(out, 10)
    /\ status' = "done"
    /\ UNCHANGED <<memory, data_counter, pc, stdin>>
    /\ UNCHANGED fixedVars

\* n copies of the character c
Run(c, n) == Repeat(c, n)

\* the loop scenarios of the specification, and a scan that starts one cell
\* right of the tape's first cell
ScenarioPrograms ==
    { Run("+", 8) \o <<"[", ">">> \o Run("+", 8) \o <<"<", "-", "]", ">", "+", ".">>,
      Run("+", 5) \o <<"[", ">">> \o Run("+", 5) \o <<"[", ">", "+", "+", "<", "-", "]",
                                                       "<", "-", "]", ">", ">", ".">>,
      Run(">", 3) \o Run("+", 10) \o <<"[", "<", "+", ">", "-", "]", "<", ".">>,
      <<">", "+", "[", "<", "<", "]">>,
      <<"+", "[", "+", "+", "]">> }

EvalPrograms == SeqsUpTo(RecognizedChars, MaxProgLen) \cup ScenarioPrograms

\* standard input: empty, or the line "X"
Inputs == {<<>>, <<88, 10>>}

InitEval ==
    /\ src_code \in EvalPrograms
    /\ program = Parse(src_code)
    /\ unopt = ParseToBytecode(src_code)
    /\ bytecode = opt_pass_1(ParseToBytecode(src_code))
    /\ jumptable = NotResolved
    /\ bc_jumptable = NotResolved
    /\ called = {"parse", "parse_to_bytecode", "opt_pass_1"}
    /\ overflow_checks \in BOOLEAN
    /\ input \in Inputs
    /\ stdin = input
    /\ engine = "none"
    /\ jt = <<>>
    /\ memory = <<>>
    /\ data_counter = 0
    /\ pc = 0
    /\ out = <<>>
    /\ status = "idle"
    /\ results = <<>>
    /\ OffsetIdle
    /\ JitIdle

NextEval ==
    \/ \E e \in Engines : Begin(e)
    \/ Tree_Right
    \/ Tree_Left
    \/ Tree_Plus
    \/ Tree_Minus
    \/ Tree_Write
    \/ Tree_Read
    \/ Tree_JumpIfZero
    \/ Tree_JumpIfNotZero
    \/ Tree_Return
    \/ ByteCode_DataPointerIncr
    \/ ByteCode_DataPointerDecr
    \/ ByteCode_DataIncr
    \/ ByteCode_DataDecr
    \/ ByteCode_Write
    \/ ByteCode_Read
    \/ ByteCode_JZ
    \/ ByteCode_JNZ
    \/ ByteCode_SETZERO
    \/ ByteCode_MoveInStepUntilZero
    \/ ByteCode_Return

SpecEval == InitEval /\ [][NextEval]_vars

-----------------------------------------------------------------------------
(* ByteCodeProgram::eval on one cell: the cell is brought to v, then        *)
(* DataIncr(d) and DataDecr(d) run on it.  `><` keeps the runs of '+' apart, *)
(* so the opcode vector is DataIncr(v), DataPointerIncr(1),                 *)
(* DataPointerDecr(1), DataIncr(d), DataDecr(d).                            *)

CellValues == 0..255

CellProgram(v, d) == Run("+", v) \o <<">", "<">> \o Run("+", d) \o Run("-", d)

CellPrograms == {CellProgram(v, d) : v \in CellValues, d \in 1..MaxDelta}

InitCell ==
    /\ src_code \in CellPrograms
    /\ program = Parse(src_code)
    /\ unopt = ParseToBytecode(src_code)
    /\ bytecode = opt_pass_1(ParseToBytecode(src_code))
    /\ jumptable = NotResolved
    /\ bc_jumptable = NotResolved
    /\ called = {"parse", "parse_to_bytecode", "opt_pass_1"}
    /\ overflow_checks \in BOOLEAN
    /\ input = <<>>
    /\ stdin = input
    /\ engine = "none"
    /\ jt = <<>>
    /\ memory = <<>>
    /\ data_counter = 0
    /\ pc = 0
    /\ out = <<>>
    /\ status = "idle"
    /\ results = <<>>
    /\ OffsetIdle
    /\ JitIdle

NextCell ==
    \/ Begin("bytecode")
    \/ ByteCode_DataPointerIncr
    \/ ByteCode_DataPointerDecr
    \/ ByteCode_DataIncr
    \/ ByteCode_DataDecr
    \/ ByteCode_Return

SpecCell == InitCell /\ [][NextCell]_vars

-----------------------------------------------------------------------------
(* Properties of the interpreters.                                         *)

\* the eval of engine e has returned or panicked
Ended(e) == (engine = e /\ status \in {"done", "panic"}) \/ e \in DOMAIN results

OutcomeOf(e) == IF engine = e THEN Live ELSE results[e]

\* the bytes written before the trailing newline of a normal return
GuestOutput(o) ==
    IF o.status = "done" THEN SubSeq(o.out, 1, Len(o.out) - 1) ELSE o.out

\* C8: on a bracket-balanced opcode vector, eval of the output of opt_pass_1
\* ends as eval of the vector itself does: both return or both abort, with the
\* same output bytes and, on return, the same tape and cursor.
C8_OptPreservesBehaviour ==
    (Balanced(unopt, JZ, JNZ) /\ Ended("bytecode_unopt") /\ Ended("bytecode")) =>
        LET u == OutcomeOf("bytecode_unopt")
            o == OutcomeOf("bytecode")
        IN  /\ u.status = o.status
            /\ u.out = o.out
            /\ u.status = "done" =>
                  (u.memory = o.memory /\ u.data_counter = o.data_counter)

\* C9: on a bracket-balanced program the bytecode interpreter (parse_to_bytecode,
\* opt_pass_1, eval) writes the same standard-output bytes as the tree-walk
\* interpreter Program::eval, apart from the trailing newline.
C9_SameOutputAsTreeWalk ==
    (Balanced(program, "[", "]") /\ Ended("interpret") /\ Ended("bytecode")) =>
        GuestOutput(OutcomeOf("interpret")) = GuestOutput(OutcomeOf("bytecode"))

\* C10: in both interpreters cell arithmetic wraps modulo 256 and never errors:
\* DataIncr(n) (or '+', n = 1) on a cell holding v leaves (v + n) mod 256 and
\* DataDecr(n) (or '-', n = 1) leaves (v - n) mod 256.
C10_CellArithmeticWraps ==
    [][ LET v == At(memory, data_counter)
            wraps(d) == /\ status' = "running"
                        /\ At(memory', data_counter) = (v + d) % 256
        IN  /\ (ByteCodeAt("DataIncr") /\ InBounds(data_counter)) => wraps(At(Code, pc).n)
            /\ (ByteCodeAt("DataDecr") /\ InBounds(data_counter)) => wraps(0 - At(Code, pc).n)
            /\ (TreeAt("+") /\ InBounds(data_counter)) => wraps(1)
            /\ (TreeAt("-") /\ InBounds(data_counter)) => wraps(0 - 1)
      ]_vars

\* the cursor of a run that has not left the tape on the right, and the arm
\* of either interpreter that is about to write or read
Max0(k) == IF k < 0 THEN 0 ELSE k
AtWrite == TreeAt(".") \/ ByteCodeAt("Write")
AtRead == TreeAt(",") \/ ByteCodeAt("Read")

\* C12: in both interpreters a pointer decrement saturates at zero:
\* DataPointerDecr(n) (or '<', n = 1) with the cursor at k leaves the cursor at
\* max(0, k - n) and signals no error; a cursor at 0 stays at 0.
C12_PointerDecrSaturates ==
    [][ /\ TreeAt("<") =>
              /\ data_counter' = Max0(data_counter - 1)
              /\ status' = "running"
        /\ ByteCodeAt("DataPointerDecr") =>
              /\ data_counter' = Max0(data_counter - At(Code, pc).n)
              /\ status' = "running"
      ]_vars

\* DataPointerDecr(2) has run with the cursor at 1 and left it at 0
C12_Witness ==
    /\ src_code = <<">", "<", "<">>
    /\ engine = "bytecode"
    /\ status = "running"
    /\ pc = 2
    /\ data_counter = 0

\* C13: MoveInStepUntilZero(Decr(n)) moves the cursor left with the clamping of
\* DataPointerDecr, so a scan that starts inside the tape ends inside the tape,
\* at or above cell 0, and never aborts.
C13_ScanLeftClamps ==
    [][ ( /\ ByteCodeAt("MoveInStepUntilZero")
          /\ At(Code, pc).chng = "Decr"
          /\ InBounds(data_counter) ) =>
              /\ status' = "running"
              /\ data_counter' \in 0..data_counter
      ]_vars

\* C14: every Write ('.') appends exactly one byte to standard output, the
\* value of the current cell, whatever that value is, and leaves the tape and
\* the cursor alone.
C14_WriteOneRawByte ==
    [][ (AtWrite /\ InBounds(data_counter)) =>
            /\ out' = Append(out, At(memory, data_counter))
            /\ memory' = memory
            /\ data_counter' = data_counter
      ]_vars

\* C15: every Read (',') takes exactly one byte from standard input and stores
\* it in the current cell, so successive reads store successive bytes.
C15_ReadOneByte ==
    [][ (AtRead /\ stdin # <<>> /\ InBounds(data_counter)) =>
            /\ stdin' = Tail(stdin)
            /\ memory' = SetAt(memory, data_counter, Head(stdin))
            /\ status' = "running"
      ]_vars

\* C16: a Read (',') on an exhausted standard input is fatal: the run stops at
\* that instruction with the cell, the cursor and the output as they were, and
\* a stopped run executes nothing more and never writes the trailing newline.
C16_ReadAtEofIsFatal ==
    [][ /\ (AtRead /\ stdin = <<>>) =>
              /\ status' = "panic"
              /\ UNCHANGED <<memory, data_counter, pc, out>>
        /\ (status = "panic" /\ engine' = engine) =>
              UNCHANGED <<status, memory, data_counter, pc, out>>
      ]_vars

\* the tree-walk interpreter wrote a cell and then stopped at a ',' with no input
C16_Witness ==
    /\ src_code = <<".", ",", "+">>
    /\ input = <<>>
    /\ engine = "interpret"
    /\ status = "panic"
    /\ pc = 1
    /\ out = <<0>>
    /\ memory = ZeroTape

\* the loop scenarios: the source text and the byte it is to write
LoopScenarios ==
    { [src |-> Run("+", 8) \o <<"[", ">">> \o Run("+", 8)
                  \o <<"<", "-", "]", ">", "+", ".">>,
       byte |-> 65],
      [src |-> Run("+", 5) \o <<"[", ">">> \o Run("+", 5)
                  \o <<"[", ">", "+", "+", "<", "-", "]", "<", "-", "]", ">", ">", ".">>,
       byte |-> 50],
      [src |-> Run(">", 3) \o Run("+", 10) \o <<"[", "<", "+", ">", "-", "]", "<", ".">>,
       byte |-> 10] }

\* C18: from a fresh all-zero tape, on the tree-walk interpreter and on the
\* optimized bytecode interpreter alike, `++++++++[>++++++++<-]>+.` writes the
\* byte 0x41, `+++++[>+++++[>++<-]<-]>>.` the byte 50 and `>>>++++++++++[<+>-]<.`
\* the byte 10, each followed by the trailing newline and nothing else.
C18_LoopScenarios ==
    \A sc \in LoopScenarios : \A e \in {"interpret", "bytecode"} :
        (src_code = sc.src /\ Ended(e)) =>
            /\ OutcomeOf(e).status = "done"
            /\ OutcomeOf(e).out = <<sc.byte, 10>>

\* both interpreters have run the nested-loop scenario and written "2\n"
C18_Witness ==
    /\ src_code = Run("+", 5) \o <<"[", ">">> \o Run("+", 5)
                     \o <<"[", ">", "+", "+", "<", "-", "]", "<", "-", "]", ">", ">", ".">>
    /\ Ended("interpret")
    /\ Ended("bytecode")
    /\ OutcomeOf("interpret").out = <<50, 10>>
    /\ OutcomeOf("bytecode").out = <<50, 10>>

\* C11: for every cell value v in 0..255 and every delta d, DataIncr(d)
\* followed by DataDecr(d) on the same cell in ByteCodeProgram::eval leaves the
\* cell equal to v.
C11_AddThenSubRestores ==
    (engine = "bytecode" /\ status = "done") =>
        \A v \in CellValues : \A d \in 1..MaxDelta :
            src_code = CellProgram(v, d) => At(memory, 0) = v

-----------------------------------------------------------------------------
(* compute_relative_32bit_offset (src/jit_utils.rs).  A usize is 64 bits    *)
(* wide (the emitters produce x86-64 code) and a u32 32 bits; both are kept *)
(* as sequences of 16-bit limbs, least significant first, so that every     *)
(* intermediate value stays within the integers the model checker has.      *)

Limb == 2^16

\* a usize / a u32 written as groups of four hexadecimal digits, most
\* significant group first
Usize(h3, h2, h1, h0) == <<h0, h1, h2, h3>>
U32(h1, h0) == <<h0, h1>>

\* a < b on two limb sequences of one length
Less(a, b) ==
    \E i \in 1..Len(a) : a[i] < b[i] /\ \A j \in (i + 1)..Len(a) : a[j] = b[j]

\* the borrow into limb i of a - b, and a - b wrapping at the width of a
RECURSIVE Borrow(_, _, _)
Borrow(a, b, i) ==
    IF i = 1 THEN 0
    ELSE IF a[i - 1] - b[i - 1] - Borrow(a, b, i - 1) < 0 THEN 1 ELSE 0

Minus(a, b) == [i \in 1..Len(a) |-> (a[i] - b[i] - Borrow(a, b, i)) % Limb]

\* the carry into limb i of a + b, and a + b wrapping at the width of a
RECURSIVE Carry(_, _, _)
Carry(a, b, i) ==
    IF i = 1 THEN 0
    ELSE IF a[i - 1] + b[i - 1] + Carry(a, b, i - 1) >= Limb THEN 1 ELSE 0

Plus(a, b) == [i \in 1..Len(a) |-> (a[i] + b[i] + Carry(a, b, i)) % Limb]

\* x as u32, and !x on a u32
AsU32(x) == SubSeq(x, 1, 2)
Not32(x) == [i \in 1..2 |-> Limb - 1 - x[i]]

\* u32::MAX, and u32::MAX as usize
U32_MAX == U32(\HFFFF, \HFFFF)
U32_MAX_as_usize == Usize(0, 0, \HFFFF, \HFFFF)

OffsetReturned(v) == [state |-> "returned", value |-> v]
OffsetPanicked == [state |-> "panic", value |-> <<0, 0>>]

\* a variant that returns the one's complement of a backward distance
compute_relative_32bit_offset_no_add(jump_from, jump_to) ==
    IF ~Less(jump_to, jump_from)
    THEN LET diff == Minus(jump_to, jump_from)
         IN  IF Less(U32_MAX_as_usize, diff)
             THEN OffsetPanicked
             ELSE OffsetReturned(AsU32(diff))
    ELSE LET diff == Minus(jump_from, jump_to)
         IN  IF Less(Plus(U32_MAX_as_usize, Usize(0, 0, 0, 1)), diff)
             THEN OffsetPanicked
             ELSE OffsetReturned(Not32(AsU32(diff)))

\* compute_relative_32bit_offset(jump_from, jump_to).  `!(diff as u32) + 1`
\* overflows when diff as u32 is 0: a panic with overflow checks, 0 without.
compute_relative_32bit_offset(jump_from, jump_to) ==
    IF ~Less(jump_to, jump_from)
    THEN LET diff == Minus(jump_to, jump_from)
         IN  IF Less(U32_MAX_as_usize, diff)
             THEN OffsetPanicked
             ELSE OffsetReturned(AsU32(diff))
    ELSE LET diff == Minus(jump_from, jump_to)
         IN  IF Less(Plus(U32_MAX_as_usize, Usize(0, 0, 0, 1)), diff)
             THEN OffsetPanicked
             ELSE LET n == Not32(AsU32(diff))
                  IN  IF overflow_checks /\ n = U32_MAX
                      THEN OffsetPanicked
                      ELSE OffsetReturned(Plus(n, U32(0, 1)))

\* tests::compute_relative_offset: f(from, to) == want
OffsetTests ==
    { [from |-> Usize(0, 0, 0, 20),   to |-> Usize(0, 0, 0, 30),   want |-> U32(0, 10)],
      [from |-> Usize(0, 0, 0, 40),   to |-> Usize(0, 0, 0, 30),   want |-> U32(\HFFFF, \HFFF6)],
      [from |-> Usize(0, 0, 0, 20),   to |-> Usize(0, 0, 0, 20),   want |-> U32(0, 0)],
      [from |-> Usize(0, 0, 0, 100),  to |-> Usize(0, 0, 0, 101),  want |-> U32(0, 1)],
      [from |-> Usize(0, 0, 0, 101),  to |-> Usize(0, 0, 0, 100),  want |-> U32(\HFFFF, \HFFFF)],
      [from |-> Usize(0, 0, 0, 1000), to |-> Usize(0, 0, 0, 1256), want |-> U32(0, 256)],
      [from |-> Usize(0, 0, 0, 1256), to |-> Usize(0, 0, 0, 1000), want |-> U32(\HFFFF, \HFF00)],
      [from |-> Usize(0, 0, \HFFFF, \HFFFF), to |-> Usize(0, 1, 0, \H000C),
       want |-> U32(0, 13)],
      [from |-> Usize(0, 1, 0, \H000C), to |-> Usize(0, 0, \HFFFF, \HFFFF),
       want |-> U32(\HFFFF, \HFFF3)],
      [from |-> Usize(0, 0, \H7FFF, \HFFFF), to |-> Usize(0, 0, \H8000, 1),
       want |-> U32(0, 2)],
      [from |-> Usize(0, 0, \H8000, 1), to |-> Usize(0, 0, \H7FFF, \HFFFF),
       want |-> U32(\HFFFF, \HFFFE)],
      [from |-> Usize(\H2020, \H2020, 0, 0), to |-> Usize(\H2020, \H2020, \H7FFF, \HFFFF),
       want |-> U32(\H7FFF, \HFFFF)],
      [from |-> Usize(\H2020, \H2020, \H8000, 0), to |-> Usize(\H2020, \H2020, 0, 0),
       want |-> U32(\H8000, 0)] }

\* the byte offsets the function is called with: those of the tests, and the
\* offsets around 2^31, 2^32 and the ends of the usize range
OffsetInputs ==
    {t.from : t \in OffsetTests} \cup {t.to : t \in OffsetTests} \cup
    { Usize(0, 0, 0, 0), Usize(0, 0, 0, 1),
      Usize(0, 0, \H8000, 0), Usize(0, 1, 0, 0), Usize(0, 1, 0, 1),
      Usize(\HFFFF, \HFFFF, \HFFFF, \HFFFF) }

InitOffset ==
    /\ src_code = <<>>
    /\ program = <<>>
    /\ bytecode = <<>>
    /\ unopt = <<>>
    /\ jumptable = NotResolved
    /\ bc_jumptable = NotResolved
    /\ called = {}
    /\ overflow_checks \in BOOLEAN
    /\ input = <<>>
    /\ stdin = <<>>
    /\ engine = "none"
    /\ jt = <<>>
    /\ memory = <<>>
    /\ data_counter = 0
    /\ pc = 0
    /\ out = <<>>
    /\ status = "idle"
    /\ results = <<>>
    /\ arg_from \in OffsetInputs
    /\ arg_to \in OffsetInputs
    /\ offset = NotCalled
    /\ JitIdle

\* let offset = compute_relative_32bit_offset(jump_from, jump_to)
DoComputeOffset ==
    /\ offset = NotCalled
    /\ offset' = compute_relative_32bit_offset(arg_from, arg_to)
    /\ UNCHANGED <<src_code, program, bytecode, unopt, jumptable, bc_jumptable, called,
                   overflow_checks, input, stdin, engine, jt, memory, data_counter, pc,
                   out, status, results, arg_from, arg_to, emitter, open_bracket_stack,
                   program_memory>>

NextOffset == DoComputeOffset

SpecOffset == InitOffset /\ [][NextOffset]_vars

\* C19: whenever compute_relative_32bit_offset returns, the result is
\* (to - from) mod 2^32, the two's-complement 32-bit encoding of the signed
\* displacement: adding it to from gives to in the low 32 bits, and the values
\* are those of the tests ((20,30) -> 10, (40,30) -> 0xfffffff6, ...).
C19_OffsetIsDisplacementMod32 ==
    offset.state = "returned" =>
        /\ Plus(offset.value, AsU32(arg_from)) = AsU32(arg_to)
        /\ \A t \in OffsetTests :
               (arg_from = t.from /\ arg_to = t.to) => offset.value = t.want

\* a backward displacement across the 2^32 boundary was encoded
C19_Witness ==
    /\ arg_from = Usize(0, 1, 0, \H000C)
    /\ arg_to = Usize(0, 0, \HFFFF, \HFFFF)
    /\ offset = OffsetReturned(U32(\HFFFF, \HFFF3))

\* the displacement to - from lies in [-2^31, 2^31 - 1]
FitsSigned32(from, to) ==
    IF ~Less(to, from)
    THEN ~Less(Usize(0, 0, \H7FFF, \HFFFF), Minus(to, from))
    ELSE ~Less(Usize(0, 0, \H8000, 0), Minus(from, to))

\* C20: compute_relative_32bit_offset fails on every pair whose displacement
\* to - from lies outside [-2^31, 2^31 - 1] and returns a value for every pair
\* whose displacement lies inside.
C20_RejectsOutsideSigned32 ==
    offset.state # "none" =>
        (offset.state = "returned" <=> FitsSigned32(arg_from, arg_to))

-----------------------------------------------------------------------------
(* The native engines: SimpleJit::parse_and_run (src/simple_jit.rs),        *)
(* BytecodeJit::parse_and_run (src/optbytecode_jit.rs) and                  *)
(* LlvmJit::parse_and_run (src/llvm_jit.rs).  Each translates the program,  *)
(* calls the translation once and returns.  What the translated code does   *)
(* is kept to its effect on standard output: it writes nothing when the     *)
(* program has no Write, and otherwise any bytes; it may fail to come back  *)
(* when the program can move the cursor (no access is bounds-checked) or,   *)
(* for LlvmJit, read (getchar unwraps the read).                            *)

NativeEngines == {"simple_jit", "bytecode_jit", "llvm_jit"}

\* bytes a translated program may write
GuestBytes == {65, 10}

\* SimpleJit translates Parser::parse(src), the other two
\* Parser::parse_to_bytecode(src); neither calls opt_pass_1
HasToken(e, c, op) ==
    IF e = "simple_jit"
    THEN \E i \in 1..Len(program) : program[i] = c
    ELSE \E i \in 1..Len(unopt) : unopt[i].op = op

HasWrite(e) == HasToken(e, ".", "Write")

CanFault(e) ==
    \/ HasToken(e, ">", "DataPointerIncr")
    \/ HasToken(e, "<", "DataPointerDecr")
    \/ (e = "llvm_jit" /\ HasToken(e, ",", "Read"))

\* an operand check that already refuses u8::MAX itself
OperandPanicsFromMax(e) ==
    /\ e # "simple_jit"
    /\ \E i \in 1..Len(unopt) : unopt[i].op \in {"DataIncr", "DataDecr"} /\ unopt[i].n >= 255

\* if *delta > u8::MAX as usize { panic!("Overflow") }
OperandPanics(e) ==
    /\ e # "simple_jit"
    /\ \E i \in 1..Len(unopt) : unopt[i].op \in {"DataIncr", "DataDecr"} /\ unopt[i].n > 255

nativeFixed == <<src_code, program, bytecode, unopt, jumptable, bc_jumptable, called,
                 overflow_checks, input, stdin, jt, memory, data_counter, pc, results,
                 arg_from, arg_to, offset, emitter, open_bracket_stack, program_memory>>

\* parse_and_run up to the call of the translated code
Native_Translate(e) ==
    /\ status = "idle"
    /\ engine' = e
    /\ out' = <<>>
    /\ status' = IF OperandPanics(e) THEN "panic" ELSE "translated"
    /\ UNCHANGED nativeFixed

\* jit_fn() / bf_fn.call()
Native_Call ==
    /\ engine \in NativeEngines
    /\ status = "translated"
    /\ \/ /\ status' = "returned"
          /\ \E g \in (IF HasWrite(engine) THEN SeqsUpTo(GuestBytes, MaxOut) ELSE {<<>>}) :
                 out' = out \o g
       \/ /\ CanFault(engine)
          /\ status' = "fault"
          /\ out' = out
    /\ UNCHANGED engine
    /\ UNCHANGED nativeFixed

\* SimpleJit::parse_and_run after jit_fn(): println!("")
SimpleJit_Return ==
    /\ engine = "simple_jit"
    /\ status = "returned"
    /\ out' = Append(out, 10)
    /\ status' = "done"
    /\ UNCHANGED engine
    /\ UNCHANGED nativeFixed

\* BytecodeJit::parse_and_run after jit_fn(): println!("")
BytecodeJit_Return ==
    /\ engine = "bytecode_jit"
    /\ status = "returned"
    /\ out' = Append(out, 10)
    /\ status' = "done"
    /\ UNCHANGED engine
    /\ UNCHANGED nativeFixed

\* LlvmJit::jit after bf_fn.call(), and LlvmJit::parse_and_run after
\* compiler.jit(..): both return at once
LlvmJit_Return ==
    /\ engine = "llvm_jit"
    /\ status = "returned"
    /\ out' = out
    /\ status' = "done"
    /\ UNCHANGED engine
    /\ UNCHANGED nativeFixed

\* the bracket-balanced programs of up to MaxProgLen tokens
NativePrograms == {p \in SeqsUpTo(RecognizedChars, MaxProgLen) : Balanced(p, "[", "]")}

InitNative ==
    /\ src_code \in NativePrograms
    /\ program = Parse(src_code)
    /\ unopt = ParseToBytecode(src_code)
    /\ bytecode = ParseToBytecode(src_code)
    /\ jumptable = NotResolved
    /\ bc_jumptable = NotResolved
    /\ called = {"parse", "parse_to_bytecode"}
    /\ overflow_checks \in BOOLEAN
    /\ input = <<>>
    /\ stdin = input
    /\ engine = "none"
    /\ jt = <<>>
    /\ memory = <<>>
    /\ data_counter = 0
    /\ pc = 0
    /\ out = <<>>
    /\ status = "idle"
    /\ results = <<>>
    /\ OffsetIdle
    /\ JitIdle

NextNative ==
    \/ \E e \in NativeEngines : Native_Translate(e)
    \/ Native_Call
    \/ SimpleJit_Return
    \/ BytecodeJit_Return
    \/ LlvmJit_Return

SpecNative == InitNative /\ [][NextNative]_vars

\* C17: on every engine a run that ends normally writes one newline to
\* standard output after all guest output, so the empty program leaves exactly
\* one newline on standard output and nothing else.
C17_TrailingNewline ==
    [][ (status # "done" /\ status' = "done") =>
            /\ out' = Append(out, 10)
            /\ Parse(src_code) = <<>> => out' = <<10>>
      ]_vars

-----------------------------------------------------------------------------
(* Order of jump resolution and execution in the interpreters.              *)

\* some opener of prog has no closer after it that brings the nesting it
\* opened back to zero
HasUnmatchedOpener(prog, open, close) ==
    \E i \in 1..Len(prog) :
        /\ prog[i] = open
        /\ \A j \in (i + 1)..Len(prog) :
               Cardinality({k \in i..j : prog[k] = open}) >
                   Cardinality({k \in i..j : prog[k] = close})

\* C26: in both interpreters the jump table is built before the first guest
\* instruction runs: a program with an opener that has no matching closer
\* aborts with no output byte written, no input byte consumed and no cell
\* modified, even when instructions precede the unmatched opener.
C26_UnmatchedOpenerAbortsFirst ==
    \A e \in Engines :
        (HasUnmatchedOpener(program, "[", "]") /\ (engine = e \/ e \in DOMAIN results)) =>
            LET o == OutcomeOf(e)
            IN  /\ o.status = "panic"
                /\ o.out = <<>>
                /\ o.stdin = input
                /\ o.memory = ZeroTape
                /\ o.data_counter = 0

\* both interpreters were started on ",.[" with a line on standard input and
\* stopped with the line unread and nothing written
C26_Witness ==
    /\ src_code = <<",", ".", "[">>
    /\ input = <<88, 10>>
    /\ Ended("interpret")
    /\ Ended("bytecode")
    /\ OutcomeOf("interpret").status = "panic"
    /\ OutcomeOf("bytecode").status = "panic"
    /\ OutcomeOf("interpret").stdin = <<88, 10>>
    /\ OutcomeOf("bytecode").out = <<>>

-----------------------------------------------------------------------------
(* What the native engines translate.                                       *)

\* C24: BytecodeJit::parse_and_run and LlvmJit::parse_and_run translate
\* optimized bytecode: the opcode vector handed to the emitter is the output of
\* parse, parse_to_bytecode and opt_pass_1, so it has no window JZ,
\* DataIncr|DataDecr, JNZ and no window JZ, DataPointerIncr|DataPointerDecr, JNZ.
C24_NativeConsumesOptimized ==
    (engine \in {"bytecode_jit", "llvm_jit"} /\ status # "idle") =>
        /\ bytecode = opt_pass_1(ParseToBytecode(src_code))
        /\ Windows(bytecode) = {}

-----------------------------------------------------------------------------
(* The native engines on runs of '+' and '-' around u8::MAX.                *)

\* run lengths on both sides of u8::MAX
LongRuns == (255 - MaxDelta)..(255 + MaxDelta)

\* a run of '+' or '-', alone or between other tokens
LongRunPrograms ==
    { pre \o Run(c, n) \o post :
        pre \in {<<>>, <<".">>, <<"+", ">">>}, c \in {"+", "-"}, n \in LongRuns,
        post \in {<<>>, <<".">>} }

InitLongRun ==
    /\ src_code \in LongRunPrograms
    /\ program = Parse(src_code)
    /\ unopt = ParseToBytecode(src_code)
    /\ bytecode = ParseToBytecode(src_code)
    /\ jumptable = NotResolved
    /\ bc_jumptable = NotResolved
    /\ called = {"parse", "parse_to_bytecode"}
    /\ overflow_checks \in BOOLEAN
    /\ input = <<>>
    /\ stdin = input
    /\ engine = "none"
    /\ jt = <<>>
    /\ memory = <<>>
    /\ data_counter = 0
    /\ pc = 0
    /\ out = <<>>
    /\ status = "idle"
    /\ results = <<>>
    /\ OffsetIdle
    /\ JitIdle

SpecLongRun == InitLongRun /\ [][NextNative]_vars

\* the token sequence has more than n equal '+' or '-' in a row
RunLongerThan(tokens, n) ==
    \E i \in 1..(Len(tokens) - n) :
        /\ tokens[i] \in {"+", "-"}
        /\ \A j \in i..(i + n) : tokens[j] = tokens[i]

\* C21: parse_to_bytecode accepts a run of more than 255 '+' or '-' and lowers
\* it to one DataIncr / DataDecr with that operand; BytecodeJit and LlvmJit
\* abort while emitting, before the translated code is called, whenever such an
\* operand is present, and never abort for that reason when every operand is
\* at most 255.
C21_EmittersRejectBigOperands ==
    (engine \in {"bytecode_jit", "llvm_jit"} /\ status # "idle") =>
        IF RunLongerThan(program, 255)
        THEN /\ \E i \in 1..Len(unopt) :
                    unopt[i].op \in {"DataIncr", "DataDecr"} /\ unopt[i].n > 255
             /\ status = "panic"
             /\ out = <<>>
        ELSE status # "panic"

\* LlvmJit stopped on a run of 256 '+' that follows a Write
C21_Witness ==
    /\ src_code = <<".">> \o Run("+", 256)
    /\ unopt = <<Write, DataIncr(256)>>
    /\ engine = "llvm_jit"
    /\ status = "panic"
    /\ out = <<>>

-----------------------------------------------------------------------------
(* SimpleJit::parse_and_run (src/simple_jit.rs) byte by byte: CodeEmitter   *)
(* and JitProgram (src/jit_utils.rs).  engine is "simple_jit", pc is the    *)
(* index of the `for (pc, instr)` loop, and status walks through            *)
(*   "emitting" -> "emitted" -> "allocated" -> "copied" -> "executable"     *)
(*   -> "returned" -> "dropped" -> "done",                                  *)
(* or ends in "panic" or "fault".  The tape itself is not followed; what    *)
(* the emitted code does when called is kept as in Native_Call.             *)

\* a byte offset as a usize
ToUsize(n) == <<n % Limb, (n \div Limb) % Limb, 0, 0>>

\* CodeEmitter::emit_byte, emit_bytes, emit_uint32, emit_uint64
emit_byte(code, v) == Append(code, v)

emit_bytes(code, bytes) == code \o bytes

emit_uint32(code, v) ==
    emit_byte(emit_byte(emit_byte(emit_byte(code,
        v[1] % 256), (v[1] \div 256) % 256), v[2] % 256), (v[2] \div 256) % 256)

emit_uint64(code, v) ==
    emit_uint32(emit_uint32(code, <<v[1], v[2]>>), <<v[3], v[4]>>)

\* CodeEmitter::replace_byte_at_offset and replace_uint32_at_offset; e is
\* the emitter's code together with whether a replacement has panicked
replace_byte_at_offset(e, at, v) ==
    IF e.panic \/ at >= Len(e.code)
    THEN [panic |-> TRUE, code |-> e.code]
    ELSE [panic |-> FALSE, code |-> SetAt(e.code, at, v)]

\* a replacement that writes the four bytes one place too far
replace_uint32_at_offset_shifted(e, at, v) ==
    replace_byte_at_offset(replace_byte_at_offset(replace_byte_at_offset(
        replace_byte_at_offset(e,
            at + 1, v[1] % 256),
            at + 2, (v[1] \div 256) % 256),
            at + 3, v[2] % 256),
            at + 4, (v[2] \div 256) % 256)

replace_uint32_at_offset(e, at, v) ==
    replace_byte_at_offset(replace_byte_at_offset(replace_byte_at_offset(
        replace_byte_at_offset(e,
            at, v[1] % 256),
            at + 1, (v[1] \div 256) % 256),
            at + 2, v[2] % 256),
            at + 3, (v[2] \div 256) % 256)

\* the machine code of the match arms
Code_inc_r13 == <<\H49, \HFF, \HC5>>
Code_dec_r13 == <<\H49, \HFF, \HCD>>
Code_addb == <<\H41, \H80, \H45, \H00, \H01>>
Code_subb == <<\H41, \H80, \H6D, \H00, \H01>>
Code_cmpb == <<\H41, \H80, \H7D, \H00, \H00>>
Code_write ==
    <<\H48, \HC7, \HC0, \H01, \H00, \H00, \H00>> \o
    <<\H48, \HC7, \HC7, \H01, \H00, \H00, \H00>> \o
    <<\H4C, \H89, \HEE>> \o
    <<\H48, \HC7, \HC2, \H01, \H00, \H00, \H00>> \o
    <<\H0F, \H05>>
Code_read ==
    <<\H48, \HC7, \HC0, \H00, \H00, \H00, \H00>> \o
    <<\H48, \HC7, \HC7, \H00, \H00, \H00, \H00>> \o
    <<\H4C, \H89, \HEE>> \o
    <<\H48, \HC7, \HC2, \H01, \H00, \H00, \H00>> \o
    <<\H0F, \H05>>
Code_jz == <<\H0F, \H84>>
Code_jnz == <<\H0F, \H85>>
Code_movabs_r13 == <<\H49, \HBD>>
Code_ret == \HC3

\* memory.as_mut_ptr() as u64: where the allocator put the tape
TapeAddresses == {Usize(\H0000, \H7F3A, \H1C00, \H0010), Usize(\H0000, \H5581, \HFFFF, \HFF00)}

\* ProtFlags of mmap and of mprotect
ProtRW == {"PROT_READ", "PROT_WRITE"}
ProtRWX == {"PROT_READ", "PROT_WRITE", "PROT_EXEC"}
ProtRX == {"PROT_READ", "PROT_EXEC"}

jitFixed == <<src_code, program, bytecode, unopt, jumptable, bc_jumptable, called,
              overflow_checks, input, stdin, engine, jt, memory, data_counter, results,
              arg_from, arg_to, offset>>

\* the arm of the emission loop for the character c is about to run
EmitAt(c) ==
    /\ engine = "simple_jit"
    /\ status = "emitting"
    /\ pc < Len(program)
    /\ At(program, pc) = c

\* an arm that only appends bytes
EmitPlain(bytes) ==
    /\ emitter' = emit_bytes(emitter, bytes)
    /\ pc' = pc + 1
    /\ UNCHANGED <<open_bracket_stack, program_memory, out, status>>
    /\ UNCHANGED jitFixed

\* parse_and_run up to the loop: CodeEmitter::new(), the empty stack and
\* movabs <address of memory.data>, %r13
SimpleJit_New ==
    /\ status = "idle"
    /\ engine' = "simple_jit"
    /\ status' = "emitting"
    /\ pc' = 0
    /\ out' = <<>>
    /\ open_bracket_stack' = <<>>
    /\ \E addr \in TapeAddresses :
           emitter' = emit_uint64(emit_bytes(<<>>, Code_movabs_r13), addr)
    /\ UNCHANGED <<src_code, program, bytecode, unopt, jumptable, bc_jumptable, called,
                   overflow_checks, input, stdin, jt, memory, data_counter, results,
                   arg_from, arg_to, offset, program_memory>>

SimpleJit_Emit_Right == EmitAt(">") /\ EmitPlain(Code_inc_r13)

SimpleJit_Emit_Left == EmitAt("<") /\ EmitPlain(Code_dec_r13)

SimpleJit_Emit_Plus == EmitAt("+") /\ EmitPlain(Code_addb)

SimpleJit_Emit_Minus == EmitAt("-") /\ EmitPlain(Code_subb)

SimpleJit_Emit_Write == EmitAt(".") /\ EmitPlain(Code_write)

SimpleJit_Emit_Read == EmitAt(",") /\ EmitPlain(Code_read)

\* '[': cmpb, push(emitter.size()), jz with four placeholder zeroes
SimpleJit_Emit_Open ==
    /\ EmitAt("[")
    /\ LET c1 == emit_bytes(emitter, Code_cmpb)
       IN  /\ open_bracket_stack' = Append(open_bracket_stack, Len(c1))
           /\ emitter' = emit_uint32(emit_bytes(c1, Code_jz), U32(0, 0))
    /\ pc' = pc + 1
    /\ UNCHANGED <<program_memory, out, status>>
    /\ UNCHANGED jitFixed

\* ']': pop, cmpb, jnz back to the byte after the opener's jz, and the
\* opener's placeholder replaced by the distance to the byte after this jnz
SimpleJit_Emit_Close ==
    /\ EmitAt("]")
    /\ IF open_bracket_stack = <<>>
       THEN /\ status' = "panic"
            /\ UNCHANGED <<emitter, open_bracket_stack, pc>>
       ELSE LET last_open_bracket == open_bracket_stack[Len(open_bracket_stack)]
                c1 == emit_bytes(emitter, Code_cmpb)
                jump_back_from == Len(c1) + 6
                jump_back_to == last_open_bracket + 6
                back == compute_relative_32bit_offset(ToUsize(jump_back_from),
                                                      ToUsize(jump_back_to))
                c2 == emit_uint32(emit_bytes(c1, Code_jnz), back.value)
                jump_forward_from == last_open_bracket + 6
                jump_forward_to == Len(c2)
                forward == compute_relative_32bit_offset(ToUsize(jump_forward_from),
                                                         ToUsize(jump_forward_to))
                r == replace_uint32_at_offset([panic |-> FALSE, code |-> c2],
                                              last_open_bracket + 2, forward.value)
            IN  IF back.state = "panic" \/ forward.state = "panic" \/ r.panic
                THEN /\ status' = "panic"
                     /\ UNCHANGED <<emitter, open_bracket_stack, pc>>
                ELSE /\ emitter' = r.code
                     /\ open_bracket_stack' =
                            SubSeq(open_bracket_stack, 1, Len(open_bracket_stack) - 1)
                     /\ pc' = pc + 1
                     /\ UNCHANGED status
    /\ UNCHANGED <<program_memory, out>>
    /\ UNCHANGED jitFixed

\* the loop is left: emitter.emit_byte(0xC3)
SimpleJit_Emit_Ret ==
    /\ engine = "simple_jit"
    /\ status = "emitting"
    /\ ~(pc < Len(program))
    /\ emitter' = emit_byte(emitter, Code_ret)
    /\ status' = "emitted"
    /\ UNCHANGED <<open_bracket_stack, program_memory, pc, out>>
    /\ UNCHANGED jitFixed

\* JitProgram::new: alloc_rw_mem(code.len()); mmap may fail
JitProgram_alloc_rw_mem ==
    /\ engine = "simple_jit"
    /\ status = "emitted"
    /\ \/ /\ program_memory' = [state |-> "mapped", prot |-> ProtRW,
                                bytes |-> <<>>, copies |-> 0, calls |-> 0]
          /\ status' = "allocated"
       \/ /\ status' = "panic"
          /\ UNCHANGED program_memory
    /\ UNCHANGED <<emitter, open_bracket_stack, pc, out>>
    /\ UNCHANGED jitFixed

\* JitProgram::new: memcpy(memory, code.as_ptr(), code.len())
JitProgram_memcpy ==
    /\ engine = "simple_jit"
    /\ status = "allocated"
    /\ program_memory' = [program_memory EXCEPT !.bytes = emitter,
                                                 !.copies = @ + 1]
    /\ status' = "copied"
    /\ UNCHANGED <<emitter, open_bracket_stack, pc, out>>
    /\ UNCHANGED jitFixed

\* JitProgram::new: make_mem_executable(&mut memory, code.len()); mprotect
\* may fail, and then the page stays mapped
JitProgram_make_mem_executable ==
    /\ engine = "simple_jit"
    /\ status = "copied"
    /\ \/ /\ program_memory' = [program_memory EXCEPT !.prot = ProtRX]
          /\ status' = "executable"
       \/ /\ status' = "panic"
          /\ UNCHANGED program_memory
    /\ UNCHANGED <<emitter, open_bracket_stack, pc, out>>
    /\ UNCHANGED jitFixed

\* jit_fn()
SimpleJit_Call ==
    /\ engine = "simple_jit"
    /\ status = "executable"
    /\ program_memory' = [program_memory EXCEPT !.calls = @ + 1]
    /\ \/ /\ status' = "returned"
          /\ \E g \in (IF HasWrite(engine) THEN SeqsUpTo(GuestBytes, MaxOut) ELSE {<<>>}) :
                 out' = out \o g
       \/ /\ CanFault(engine)
          /\ status' = "fault"
          /\ out' = out
    /\ UNCHANGED <<emitter, open_bracket_stack, pc>>
    /\ UNCHANGED jitFixed

\* the end of the unsafe block: Drop for JitProgram, munmap
JitProgram_drop ==
    /\ engine = "simple_jit"
    /\ status = "returned"
    /\ \/ /\ program_memory' = [program_memory EXCEPT !.state = "unmapped", !.prot = {}]
          /\ status' = "dropped"
       \/ /\ status' = "panic"
          /\ UNCHANGED program_memory
    /\ UNCHANGED <<emitter, open_bracket_stack, pc, out>>
    /\ UNCHANGED jitFixed

\* println!("")
SimpleJit_Println ==
    /\ engine = "simple_jit"
    /\ status = "dropped"
    /\ out' = Append(out, 10)
    /\ status' = "done"
    /\ UNCHANGED <<emitter, open_bracket_stack, program_memory, pc>>
    /\ UNCHANGED jitFixed

\* the token sequences handed to SimpleJit: every one of up to MaxProgLen
\* tokens, and longer ones of brackets and '+'
JitPrograms ==
    SeqsUpTo(RecognizedChars, MaxProgLen) \cup SeqsUpTo({"[", "]", "+"}, MaxProgLen + 2)

InitSimpleJit ==
    /\ src_code \in JitPrograms
    /\ program = Parse(src_code)
    /\ unopt = ParseToBytecode(src_code)
    /\ bytecode = ParseToBytecode(src_code)
    /\ jumptable = NotResolved
    /\ bc_jumptable = NotResolved
    /\ called = {"parse", "parse_to_bytecode"}
    /\ overflow_checks \in BOOLEAN
    /\ input = <<>>
    /\ stdin = input
    /\ engine = "none"
    /\ jt = <<>>
    /\ memory = <<>>
    /\ data_counter = 0
    /\ pc = 0
    /\ out = <<>>
    /\ status = "idle"
    /\ results = <<>>
    /\ OffsetIdle
    /\ JitIdle

NextSimpleJit ==
    \/ SimpleJit_New
    \/ SimpleJit_Emit_Right
    \/ SimpleJit_Emit_Left
    \/ SimpleJit_Emit_Plus
    \/ SimpleJit_Emit_Minus
    \/ SimpleJit_Emit_Write
    \/ SimpleJit_Emit_Read
    \/ SimpleJit_Emit_Open
    \/ SimpleJit_Emit_Close
    \/ SimpleJit_Emit_Ret
    \/ JitProgram_alloc_rw_mem
    \/ JitProgram_memcpy
    \/ JitProgram_make_mem_executable
    \/ SimpleJit_Call
    \/ JitProgram_drop
    \/ SimpleJit_Println

SpecSimpleJit == InitSimpleJit /\ [][NextSimpleJit]_vars

-----------------------------------------------------------------------------
(* Properties of SimpleJit::parse_and_run.                                  *)

\* emission has completed: the final ret is in the code
EmissionCompleted ==
    /\ engine = "simple_jit"
    /\ status \in {"emitted", "allocated", "copied", "executable", "returned",
                   "dropped", "done", "fault"}

\* C22: whenever emission in SimpleJit::parse_and_run completes without a
\* fatal error (the final ret is emitted and the code goes to JitProgram), the
\* stack of unresolved opener patch sites is empty: no jz is left with its
\* placeholder displacement.
C22_StackEmptyAfterEmission ==
    EmissionCompleted => open_bracket_stack = <<>>

\* the number of code bytes the arm for the character c appends, and the byte
\* offset at which the code of token k (counted from 0) starts
ArmLength(c) ==
    CASE c = ">" -> Len(Code_inc_r13)
      [] c = "<" -> Len(Code_dec_r13)
      [] c = "+" -> Len(Code_addb)
      [] c = "-" -> Len(Code_subb)
      [] c = "." -> Len(Code_write)
      [] c = "," -> Len(Code_read)
      [] c \in {"[", "]"} -> Len(Code_cmpb) + 6

RECURSIVE TokenOffset(_, _)
TokenOffset(prog, k) ==
    IF k = 0 THEN Len(Code_movabs_r13) + 8
    ELSE TokenOffset(prog, k - 1) + ArmLength(At(prog, k - 1))

\* the closer that matches the opener at index i (from 0) by nesting
MatchOf(prog, i) ==
    CHOOSE j \in (i + 1)..(Len(prog) - 1) :
        /\ Cardinality({k \in i..j : At(prog, k) = "["}) =
               Cardinality({k \in i..j : At(prog, k) = "]"})
        /\ \A m \in i..(j - 1) :
               Cardinality({k \in i..m : At(prog, k) = "["}) >
                   Cardinality({k \in i..m : At(prog, k) = "]"})

\* the four bytes at offset at, read as a little-endian two's-complement number
Disp(code, at) ==
    LET lo == At(code, at) + 256 * At(code, at + 1)
        hi == At(code, at + 2) + 256 * At(code, at + 3)
    IN  IF hi >= 32768 THEN (hi - 65536) * 65536 + lo ELSE hi * 65536 + lo

\* every jz lands right after the matching closer's jnz and every jnz right
\* after the matching opener's jz
JumpsLand ==
    \A i \in 0..(Len(program) - 1) :
        At(program, i) = "[" =>
            LET j == MatchOf(program, i)
                jz_end == TokenOffset(program, i) + ArmLength("[")
                jnz_end == TokenOffset(program, j) + ArmLength("]")
            IN  /\ SubSeq(emitter, jz_end - 5, jz_end - 4) = <<\H0F, \H84>>
                /\ SubSeq(emitter, jnz_end - 5, jnz_end - 4) = <<\H0F, \H85>>
                /\ jz_end + Disp(emitter, jz_end - 4) = jnz_end
                /\ jnz_end + Disp(emitter, jnz_end - 4) = jz_end

\* a ']' arm leaves every byte that was there alone, apart from the four
\* placeholder bytes of the opener on top of the stack, and appends its 11 bytes
PatchTouchesPlaceholderOnly ==
    (EmitAt("]") /\ open_bracket_stack # <<>> /\ status' = "emitting") =>
        LET site == open_bracket_stack[Len(open_bracket_stack)] + 2
        IN  /\ Len(emitter') = Len(emitter) + ArmLength("]")
            /\ \A k \in 0..(Len(emitter) - 1) :
                   k \notin site..(site + 3) => At(emitter', k) = At(emitter, k)
            /\ SubSeq(emitter, site + 1, site + 4) = <<0, 0, 0, 0>>

\* C25: for every bracket-balanced token sequence, after SimpleJit emission
\* each opener's patched displacement makes its jz land on the byte right after
\* the matching closer's 6-byte jnz, each closer's displacement makes its jnz
\* land on the byte right after the matching opener's 6-byte jz, the pairing is
\* the nesting-correct one, and patching changes only the four placeholder bytes.
C25_PatchedJumpsLand ==
    /\ []((EmissionCompleted /\ Balanced(program, "[", "]")) => JumpsLand)
    /\ [][Balanced(program, "[", "]") => PatchTouchesPlaceholderOnly]_vars

\* "[[+]]" has been emitted: the outer jz jumps 38 bytes forward, the inner jnz
\* 16 bytes back
C25_Witness ==
    /\ src_code = <<"[", "[", "+", "]", "]">>
    /\ status = "emitted"
    /\ open_bracket_stack = <<>>
    /\ Len(emitter) = 60
    /\ Disp(emitter, 17) = 38
    /\ Disp(emitter, 44) = 0 - 16

\* C23: the page of a JitProgram is mapped read+write, receives the emitted
\* bytes once, is switched to read+execute, is called, and is unmapped on drop:
\* it is never called before the switch or after the drop, never written after
\* the switch, and never writable and executable at once.
C23_PageLifecycle ==
    /\ [](~({"PROT_WRITE", "PROT_EXEC"} \subseteq program_memory.prot))
    /\ []((engine = "simple_jit" /\ status \in {"dropped", "done"}) =>
              /\ program_memory.state = "unmapped"
              /\ program_memory.copies = 1
              /\ program_memory.calls = 1)
    /\ [][ /\ program_memory'.calls # program_memory.calls =>
                 /\ program_memory.state = "mapped"
                 /\ program_memory.prot = ProtRX
                 /\ program_memory.copies = 1
                 /\ program_memory.bytes = emitter
                 /\ program_memory' = [program_memory EXCEPT !.calls = 1]
           /\ (program_memory'.bytes # program_memory.bytes
                  \/ program_memory'.copies # program_memory.copies) =>
                 /\ program_memory.state = "mapped"
                 /\ program_memory.prot = ProtRW
                 /\ program_memory.copies = 0
                 /\ program_memory'.copies = 1
           /\ program_memory'.prot # program_memory.prot =>
                 \/ program_memory.state = "none" /\ program_memory'.prot = ProtRW
                 \/ /\ program_memory.prot = ProtRW
                    /\ program_memory.copies = 1
                    /\ program_memory'.prot = ProtRX
                 \/ /\ program_memory.prot = ProtRX
                    /\ program_memory.calls = 1
                    /\ program_memory'.state = "unmapped"
                    /\ program_memory'.prot = {}
           /\ program_memory.state = "unmapped" => program_memory' = program_memory
      ]_vars

\* the code of "+." was copied into a page, run once and the page unmapped
C23_Witness ==
    /\ src_code = <<"+", ".">>
    /\ engine = "simple_jit"
    /\ status = "done"
    /\ program_memory.state = "unmapped"
    /\ program_memory.bytes = emitter
    /\ program_memory.copies = 1
    /\ program_memory.calls = 1

====
